---- MODULE Spec2Model ----
(***************************************************************************)
(* State-machine model of the NUMA vmstat logger toolkit:                  *)
(*   - numa_stat_logger (sampling loop, CSV writer, child supervision),    *)
(*   - change_policy    (node mask construction, syscall 470),             *)
(*   - inference_script.sh (probe / decide / apply / sleep loop).          *)
(* Each program has its own variables and its own specification; the       *)
(* variables of the other programs stay at their initial values.           *)
(***************************************************************************)
EXTENDS Integers, Sequences, FiniteSets, TLC

VARIABLES
    \* ---- numa_stat_logger: process state
    pc,             \* position of the logger's main()
    numa_count,     \* int numa_count
    interval_sec,   \* double interval_sec, kept as an exact fraction [num, den]
    use_duration,   \* int use_duration
    duration_sec,   \* int duration_sec
    use_run,        \* int use_run
    run_cmd,        \* run_argv[0]
    iterations,     \* int iterations
    iter,           \* loop counter
    nm,             \* struct node_meminfo* nm
    nv,             \* struct node_vmstat* nv
    sv,             \* struct sys_vmstat sv
    fp,             \* FILE* fp of the append handle is open
    child_pid,      \* pid_t child_pid
    ret,            \* result of the last waitpid
    exit_status,    \* exit status of the logger, -1 while it runs
    \* ---- numa_stat_logger: environment
    csv,            \* numa_stat_log.csv: [exists, lines]
    child,          \* the monitored child: none/forked/running/zombie/reaped
    clock,          \* CLOCK_REALTIME
    heapFill,       \* what freshly malloc'ed / stack memory happens to hold
    host,           \* which sources /sys and /proc can present at a read
    launcher,       \* who starts the logger: script.sh or a command line
    \* ---- numa_stat_logger: history (not read by the program)
    runs,           \* invocations of the logger so far
    csvAtStart,     \* the file as the current invocation found it
    rowsRun,        \* rows appended by the current invocation
    rowsAfterExit,  \* rows appended after the child's exit
    lastMem,        \* the meminfo sources read by the latest sampling pass
    exitSite,       \* the return statement of main that ended the invocation
    \* ---- change_policy
    ppc, p_argc, p_pid, p_mode, nodecount, nwords, nmask, p_i, requests, sysret, p_exit, oob,
    freed,
    \* ---- inference_script.sh
    NUMA_COUNT, DUMMY_PID, spc, workload, mode, calls, probes, decisions,
    sleeps, callsAfterTerm

lvars == <<pc, numa_count, interval_sec, use_duration, duration_sec, use_run,
           run_cmd, iterations, iter, nm, nv, sv, fp, child_pid, ret,
           exit_status, csv, child, clock, heapFill, host, launcher, runs,
           csvAtStart,
           rowsRun, rowsAfterExit, lastMem, exitSite>>
pvars == <<ppc, p_argc, p_pid, p_mode, nodecount, nwords, nmask, p_i, requests, sysret,
           p_exit, oob, freed>>
svars == <<NUMA_COUNT, DUMMY_PID, spc, workload, mode, calls, probes,
           decisions, sleeps, callsAfterTerm>>
vars == <<lvars, pvars, svars>>

(***************************************************************************)
(* Bounds of the model.                                                    *)
(***************************************************************************)
MaxNodes == 2
MaxRows == 2
MaxVariedRows == 1
MaxRuns == 2
MaxDuration == 2
MaxNodeCount == 130
MaxLoops == 4

(***************************************************************************)
(* unsigned (32 bit) values, kept as two 16-bit halves <<hi, lo>>          *)
(***************************************************************************)
Half == 2 ^ 16
IntMax == 2147483647
IntMin == (-2147483647) - 1

U(n) == <<n \div Half, n % Half>>

\* a - b in unsigned 32-bit arithmetic (line 106)
USub(a, b) ==
    LET lo == a[2] - b[2]
        borrow == IF lo < 0 THEN 1 ELSE 0
    IN <<(a[1] - b[1] - borrow + Half) % Half, (lo + Half) % Half>>

Zero == U(0)
Garbage == <<43690, 43690>>
Indeterminate == {Zero, Garbage}

Nodes(n) == 0 .. (n - 1)

(***************************************************************************)
(* Sources under /sys/devices/system/node/node<i>/ and /proc/vmstat.       *)
(* A source is [present, lines]; present = FALSE is a failed fopen.        *)
(***************************************************************************)
\* one line of a meminfo source: "Node <node> <key>: <val> kB"; num = FALSE
\* is a line on which sscanf("%u") converts nothing
ML(key, node, num, val) == [key |-> key, node |-> node, num |-> num, val |-> val]
\* one "key value" pair of a vmstat source; pair = FALSE is a token on which
\* fscanf("%127s %u") does not return 2
VL(key, val) == [key |-> key, pair |-> TRUE, val |-> val]
VBad == [key |-> "garbled", pair |-> FALSE, val |-> Zero]
File(lines) == [present |-> TRUE, lines |-> lines]
NoFile == [present |-> FALSE, lines |-> <<>>]

NodeKeys == <<"nr_free_pages", "numa_hit", "numa_miss", "numa_foreign",
              "numa_interleave", "numa_local", "numa_other">>
SysKeys == <<"numa_pte_updates", "numa_huge_pte_updates", "numa_pages_migrated",
             "pgmigrate_success", "pgmigrate_fail", "thp_migration_success",
             "thp_migration_fail", "thp_migration_split">>

Range(s) == {s[k] : k \in 1 .. Len(s)}

\* struct node_meminfo / node_vmstat / sys_vmstat holding v in every field
MemRec(v) == [mem_total |-> v, mem_used |-> v]
NodeVmRec(v) == [k \in Range(NodeKeys) |-> v]
SysVmRec(v) == [k \in Range(SysKeys) |-> v]

\* the loop of parse_node_meminfo (lines 95-113) from line k on
RECURSIVE MeminfoLoop(_, _, _, _, _, _)
MeminfoLoop(m, lines, nodeID, k, found_total, found_free) ==
    IF k > Len(lines) THEN m
    ELSE
        LET line == lines[k]
            isTotal == ~found_total /\ line.key = "MemTotal" /\ line.node = nodeID
            isFree == ~isTotal /\ ~found_free /\ line.key = "MemFree"
                      /\ line.node = nodeID
            m1 == IF isTotal /\ line.num
                  THEN [m EXCEPT !.mem_total = line.val]
                  ELSE IF isFree /\ line.num
                       THEN [m EXCEPT !.mem_used = USub(m.mem_total, line.val)]
                       ELSE m
            ft == found_total \/ (isTotal /\ line.num)
            ff == found_free \/ (isFree /\ line.num)
        IN IF ft /\ ff THEN m1
           ELSE MeminfoLoop(m1, lines, nodeID, k + 1, ft, ff)

\* parse_node_meminfo(nm, path, nodeID): m is *nm before, the result *nm after
parse_node_meminfo(m, file, nodeID) ==
    IF ~file.present THEN m
    ELSE MeminfoLoop(m, file.lines, nodeID, 1, FALSE, FALSE)

\* the fscanf loop shared in shape by parse_node_vmstat and parse_sys_vmstat:
\* r is the struct, found the set of f_<key> flags that are set
RECURSIVE VmstatLoop(_, _, _, _, _, _)
VmstatLoop(r, lines, keys, k, found, total_fields) ==
    IF k > Len(lines) \/ ~lines[k].pair THEN r
    ELSE
        LET e == lines[k]
            hit == e.key \in keys /\ e.key \notin found
            r1 == IF hit THEN [r EXCEPT ![e.key] = e.val] ELSE r
            found1 == IF hit THEN found \cup {e.key} ELSE found
        IN IF Cardinality(found1) = total_fields THEN r1
           ELSE VmstatLoop(r1, lines, keys, k + 1, found1, total_fields)

parse_node_vmstat(r, file) ==
    IF ~file.present THEN r
    ELSE VmstatLoop(r, file.lines, Range(NodeKeys), 1, {}, 7)

parse_sys_vmstat(r, file) ==
    IF ~file.present THEN r
    ELSE VmstatLoop(r, file.lines, Range(SysKeys), 1, {}, 8)

(***************************************************************************)
(* The CSV file: a header line is [kind = "header", cols], a data row is   *)
(* [kind = "row", fields]; a field is [col, val], col naming the struct    *)
(* member the printed value was read from.                                 *)
(***************************************************************************)
RECURSIVE Flatten(_)
Flatten(ss) == IF ss = <<>> THEN <<>> ELSE Head(ss) \o Flatten(Tail(ss))

\* the column names of write_csv_header (lines 264-277)
HeaderCols(n) ==
    <<<<"timestamp">>>>
    \o Flatten([i \in 1 .. n |->
           << <<"node", i - 1, "mem_total">>, <<"node", i - 1, "mem_used">> >>])
    \o Flatten([i \in 1 .. n |->
           [k \in 1 .. Len(NodeKeys) |-> <<"node", i - 1, NodeKeys[k]>>]])
    \o [k \in 1 .. Len(SysKeys) |-> <<"sys", SysKeys[k]>>]

Fld(col, val) == [col |-> col, val |-> val]

\* a row written node by node, each node's vmstat after its meminfo
RowFieldsByNode(n, ts, m, v, s) ==
    <<Fld(<<"timestamp">>, ts)>>
    \o Flatten([i \in 1 .. n |->
           << Fld(<<"node", i - 1, "mem_total">>, m[i - 1].mem_total),
              Fld(<<"node", i - 1, "mem_used">>, m[i - 1].mem_used) >>
           \o [k \in 1 .. Len(NodeKeys) |->
               Fld(<<"node", i - 1, NodeKeys[k]>>, v[i - 1][NodeKeys[k]])]])
    \o [k \in 1 .. Len(SysKeys) |-> Fld(<<"sys", SysKeys[k]>>, s[SysKeys[k]])]

\* the fields of one data row (lines 388-402)
RowFields(n, ts, m, v, s) ==
    <<Fld(<<"timestamp">>, ts)>>
    \o Flatten([i \in 1 .. n |->
           << Fld(<<"node", i - 1, "mem_total">>, m[i - 1].mem_total),
              Fld(<<"node", i - 1, "mem_used">>, m[i - 1].mem_used) >>])
    \o Flatten([i \in 1 .. n |->
           [k \in 1 .. Len(NodeKeys) |->
               Fld(<<"node", i - 1, NodeKeys[k]>>, v[i - 1][NodeKeys[k]])]])
    \o [k \in 1 .. Len(SysKeys) |-> Fld(<<"sys", SysKeys[k]>>, s[SysKeys[k]])]

HeaderLine(n) == [kind |-> "header", cols |-> HeaderCols(n)]
RowLine(fields) == [kind |-> "row", fields |-> fields]

(***************************************************************************)
(* What the environment can present.                                       *)
(***************************************************************************)
\* interval_sec values (atof of argv[2]) as fractions. 0, 1/2, 1, 3/2 and
\* 2^-30 are doubles, and the double quotient of a small integer by one of
\* them truncates as the exact quotient does; so does 10 / 0.1 (= 100.0).
Ivl(num, den) == [num |-> num, den |-> den]
TinyDen == 2 ^ 30
Intervals == {Ivl(0, 1), Ivl(1, 2), Ivl(1, 1), Ivl(3, 2), Ivl(1, TinyDen)}

\* the command lines: script.sh passes the node count of the host, INTERVAL=0.1
\* and either -r "$@" or -d 10; a command line passes anything
ArgCounts == IF launcher = "script.sh" THEN {5} ELSE 1 .. 5
NodeArgs == 0 .. MaxNodes
IntervalArgs == IF launcher = "script.sh" THEN {Ivl(1, 10)} ELSE Intervals
ModeArgs == IF launcher = "script.sh" THEN {"-d", "-r"} ELSE {"-d", "-r", "-x"}
DurationArgs == IF launcher = "script.sh" THEN {10} ELSE 0 .. MaxDuration
CommandArgs == {"./workload", "./absent"}

MemTotal(i, n) == ML("MemTotal", i, TRUE, U(n))
MemFree(i, n) == ML("MemFree", i, TRUE, U(n))

\* Hosts: "steady" presents the same well-formed sources at every read,
\* "bare" has no NUMA sources at all, on "memvar" the meminfo sources vary
\* between reads, on "vmvar" the vmstat sources do.
\* meminfo sources of node i
MemFiles(h, i) ==
    IF h \in {"steady", "vmvar"} THEN {File(<<MemTotal(i, 4), MemFree(i, 1)>>)}
    ELSE IF h = "bare" THEN {NoFile}
    ELSE {NoFile,
          File(<<MemTotal(i, 4), MemFree(i, 1)>>),
          File(<<MemFree(i, 1), MemTotal(i, 6)>>),
          File(<<ML("MemTotal", i, FALSE, Zero), ML("MemTotal", i + 1, TRUE, U(9)),
                 ML("Active", i, TRUE, U(3)), MemFree(i, 5)>>)}

FullNodeVm == File(<<VL("nr_inactive_anon", U(8))>>
                   \o [k \in 1 .. Len(NodeKeys) |-> VL(NodeKeys[k], U(k))]
                   \o <<VL("numa_hit", U(9))>>)
PartNodeVm == File(<<VL("numa_hit", U(2)), VL("numa_hit", U(3)),
                     VL("numa_other", U(4)), VBad, VL("numa_miss", U(5))>>)
FullSysVm == File([k \in 1 .. Len(SysKeys) |-> VL(SysKeys[k], U(10 + k))])
PartSysVm == File(<<VL("pgmigrate_fail", U(2)), VL("nr_free_pages", U(3))>>)

NodeVmFiles(h) ==
    IF h \in {"steady", "memvar"} THEN {FullNodeVm}
    ELSE IF h = "bare" THEN {NoFile}
    ELSE {NoFile, FullNodeVm, PartNodeVm}

SysVmFiles(h) ==
    IF h \in {"steady", "memvar"} THEN {FullSysVm}
    ELSE IF h = "bare" THEN {NoFile}
    ELSE {NoFile, PartSysVm}

(***************************************************************************)
(* numa_stat_logger                                                        *)
(***************************************************************************)
NoCsv == [exists |-> FALSE, lines |-> <<>>]
ChildPid == 4242

\* truncation of duration_sec / interval_sec (line 334), exact while the
\* quotient is an int; d > 0, iv.num > 0
QuotFits(d, iv) ==
    LET a == iv.den \div iv.num
        r == iv.den % iv.num
    IN /\ (a = 0 \/ d <= IntMax \div a)
       /\ d * a <= IntMax - ((d * r) \div iv.num)

Quot(d, iv) ==
    LET a == iv.den \div iv.num
        r == iv.den % iv.num
    IN d * a + ((d * r) \div iv.num)

\* the values `int iterations = duration_sec / interval_sec` can take: the
\* conversion of an out-of-range double is undefined; x86-64 yields INT_MIN,
\* AArch64 saturates to INT_MAX
IterationsOf(d, iv) ==
    IF QuotFits(d, iv) THEN {Quot(d, iv)} ELSE {IntMin, IntMax}

LHistory == <<runs, csvAtStart, rowsRun, rowsAfterExit, lastMem, exitSite>>
LEnv == <<csv, child, clock, heapFill, host, launcher>>
LArgs == <<numa_count, interval_sec, use_duration, duration_sec, use_run,
           run_cmd, iterations>>
LBufs == <<nm, nv, sv>>

\* return <code> from main (or exit(<code>)) at <site>
Exit(code, site) == pc' = "done" /\ exit_status' = code /\ exitSite' = site

\* the assignments of a run whose arguments passed every check
Accept(n, iv, flag, d, cmd) ==
    /\ numa_count' = n
    /\ interval_sec' = iv
    /\ use_duration' = (flag = "-d")
    /\ duration_sec' = d
    /\ use_run' = (flag = "-r")
    /\ run_cmd' = cmd
    /\ iterations' \in (IF flag = "-d" THEN IterationsOf(d, iv) ELSE {0})
    /\ pc' = "alloc"
    /\ UNCHANGED <<exit_status, exitSite>>

Reject == Exit(1, "args") /\ UNCHANGED LArgs

\* lines 284-335: argument checks and the iteration count
ParseArgs ==
    /\ pc = "args"
    /\ \E argc \in ArgCounts :
          IF argc < 4 THEN Reject
          ELSE \E a1 \in NodeArgs :
             IF a1 <= 0 THEN Reject
             ELSE \E a2 \in IntervalArgs :
                IF a2.num <= 0 THEN Reject
                ELSE \E a3 \in ModeArgs :
                   IF a3 = "-d"
                   THEN IF argc < 5 THEN Reject
                        ELSE \E a4 \in DurationArgs :
                                IF a4 <= 0 THEN Reject
                                ELSE Accept(a1, a2, a3, a4, "")
                   ELSE IF a3 = "-r"
                   THEN IF argc < 5 THEN Reject
                        ELSE \E a4 \in CommandArgs :
                                Accept(a1, a2, a3, 0, a4)
                   ELSE Reject
    /\ UNCHANGED <<iter, LBufs, fp, child_pid, ret, LEnv, runs, csvAtStart, rowsRun,
                   rowsAfterExit, lastMem, pvars, svars>>

\* lines 337-345: malloc of nm and nv, sv on the stack; none is initialised
Alloc ==
    /\ pc = "alloc"
    /\ \/ /\ nm' = [i \in Nodes(numa_count) |-> MemRec(heapFill)]
          /\ nv' = [i \in Nodes(numa_count) |-> NodeVmRec(heapFill)]
          /\ sv' = SysVmRec(heapFill)
          /\ pc' = "header"
          /\ UNCHANGED <<exit_status, exitSite>>
       \/ /\ Exit(1, "alloc")
          /\ UNCHANGED LBufs
    /\ UNCHANGED <<LArgs, iter, fp, child_pid, ret, LEnv, runs, csvAtStart, rowsRun,
                   rowsAfterExit, lastMem, pvars, svars>>

\* the header written whether or not the file is there
HeaderAlways(f) == TRUE

\* lines 255-259: the header is written only when fopen(filename, "r") fails
HeaderNeeded(f) == ~f.exists

\* write_csv_header (lines 254-281), called at line 348
write_csv_header ==
    /\ pc = "header"
    /\ IF HeaderNeeded(csv)
       THEN \/ /\ csv' = [exists |-> TRUE, lines |-> <<HeaderLine(numa_count)>>]
               /\ pc' = "open"
               /\ UNCHANGED <<exit_status, exitSite>>
            \/ /\ Exit(1, "header")
               /\ UNCHANGED csv
       ELSE /\ pc' = "open"
            /\ UNCHANGED <<csv, exit_status, exitSite>>
    /\ UNCHANGED <<LArgs, iter, LBufs, fp, child_pid, ret, child, clock, heapFill,
                   host, launcher, runs, csvAtStart, rowsRun, rowsAfterExit, lastMem, pvars,
                   svars>>

\* lines 350-355: fopen(csv_file, "a")
OpenAppend ==
    /\ pc = "open"
    /\ \/ /\ fp' = TRUE
          /\ csv' = [csv EXCEPT !.exists = TRUE]
          /\ pc' = "fork"
          /\ UNCHANGED <<exit_status, exitSite>>
       \/ /\ Exit(1, "open")
          /\ UNCHANGED <<fp, csv>>
    /\ UNCHANGED <<LArgs, iter, LBufs, child_pid, ret, child, clock, heapFill,
                   host, launcher, runs, csvAtStart, rowsRun, rowsAfterExit, lastMem, pvars,
                   svars>>

\* lines 357-368: fork in run mode; the child's side is ChildExec
Fork ==
    /\ pc = "fork"
    /\ IF use_run
       THEN \/ child_pid' = ChildPid /\ child' = "forked"
            \/ child_pid' = -1 /\ UNCHANGED child
       ELSE UNCHANGED <<child_pid, child>>
    /\ pc' = "loop"
    /\ iter' = 0
    /\ UNCHANGED <<LArgs, LBufs, fp, ret, exit_status, csv, clock, heapFill, host, launcher,
                   LHistory, pvars, svars>>

\* lines 361-366, in the child: execvp, and exit(1) when it fails
ChildExec ==
    /\ child = "forked"
    /\ child' = IF run_cmd = "./workload" THEN "running" ELSE "zombie"
    /\ UNCHANGED <<pc, LArgs, iter, LBufs, fp, child_pid, ret, exit_status, csv,
                   clock, heapFill, host, launcher, LHistory, pvars, svars>>

\* the monitored command ends
ChildExit ==
    /\ child = "running"
    /\ child' = "zombie"
    /\ UNCHANGED <<pc, LArgs, iter, LBufs, fp, child_pid, ret, exit_status, csv,
                   clock, heapFill, host, launcher, LHistory, pvars, svars>>

\* line 372: use_duration ? (iter < iterations) : 1
LoopCond == IF use_duration THEN iter < iterations ELSE TRUE

LoopTest ==
    /\ pc = "loop"
    /\ pc' = IF LoopCond THEN "sample" ELSE "reap"
    /\ UNCHANGED <<LArgs, iter, LBufs, fp, child_pid, ret, exit_status, LEnv,
                   LHistory, pvars, svars>>

\* the model follows a run for this many rows
RowCap == IF host \in {"steady", "bare"} THEN MaxRows ELSE MaxVariedRows

\* lines 374-383: one sampling pass over all nodes and /proc/vmstat
Sample ==
    /\ pc = "sample"
    /\ rowsRun < RowCap
    /\ \E mf \in [Nodes(numa_count) -> UNION {MemFiles(host, i) : i \in Nodes(numa_count)}],
          vf \in [Nodes(numa_count) -> NodeVmFiles(host)],
          sf \in SysVmFiles(host) :
          /\ \A i \in Nodes(numa_count) : mf[i] \in MemFiles(host, i)
          /\ nm' = [i \in Nodes(numa_count) |-> parse_node_meminfo(nm[i], mf[i], i)]
          /\ nv' = [i \in Nodes(numa_count) |-> parse_node_vmstat(nv[i], vf[i])]
          /\ sv' = parse_sys_vmstat(sv, sf)
          /\ lastMem' = mf
    /\ pc' = "write"
    /\ UNCHANGED <<LArgs, iter, fp, child_pid, ret, exit_status, LEnv, runs,
                   csvAtStart, rowsRun, rowsAfterExit, exitSite, pvars, svars>>

\* lines 385-404: one row, flushed
WriteRow ==
    /\ pc = "write"
    /\ csv' = [csv EXCEPT !.lines =
                  Append(@, RowLine(RowFields(numa_count, clock, nm, nv, sv)))]
    /\ rowsRun' = rowsRun + 1
    /\ rowsAfterExit' = IF child \in {"zombie", "reaped"}
                        THEN rowsAfterExit + 1 ELSE rowsAfterExit
    /\ pc' = "sleep"
    /\ UNCHANGED <<LArgs, iter, LBufs, fp, child_pid, ret, exit_status, child,
                   clock, heapFill, host, launcher, runs, csvAtStart, lastMem, exitSite,
                   pvars, svars>>

\* lines 406-408: nanosleep
Sleep ==
    /\ pc = "sleep"
    /\ clock' = clock + 1
    /\ pc' = "check"
    /\ UNCHANGED <<LArgs, iter, LBufs, fp, child_pid, ret, exit_status, csv, child,
                   heapFill, host, launcher, LHistory, pvars, svars>>

\* waitpid(child_pid, &status, WNOHANG): <<return value, child afterwards>>
WaitNoHang ==
    IF child_pid > 0 /\ child = "zombie" THEN <<child_pid, "reaped">>
    ELSE IF child_pid > 0 /\ child \in {"forked", "running"} THEN <<0, child>>
    ELSE <<-1, child>>

\* the stop test with its sense inverted
BreaksWhileRunning(r) == r = 0

\* line 413: if (ret != 0) break
Breaks(r) == r # 0

\* lines 410-415 and the loop's iter++
Check ==
    /\ pc = "check"
    /\ IF use_run
       THEN /\ ret' = WaitNoHang[1]
            /\ child' = WaitNoHang[2]
            /\ IF Breaks(WaitNoHang[1])
               THEN pc' = "reap" /\ UNCHANGED iter
               ELSE pc' = "loop" /\ iter' = iter + 1
       ELSE /\ pc' = "loop"
            /\ iter' = iter + 1
            /\ UNCHANGED <<ret, child>>
    /\ UNCHANGED <<LArgs, LBufs, fp, child_pid, exit_status, csv, clock, heapFill,
                   host, launcher, LHistory, pvars, svars>>

\* lines 418-420: the blocking waitpid; it returns once the child has ended
\* (or at once, with -1, when there is no child left to wait for)
FinalWait ==
    /\ pc = "reap"
    /\ IF use_run
       THEN /\ ~(child_pid > 0 /\ child \in {"forked", "running"})
            /\ ret' = (IF child_pid > 0 /\ child = "zombie" THEN child_pid ELSE -1)
            /\ child' = (IF child_pid > 0 /\ child = "zombie" THEN "reaped" ELSE child)
       ELSE UNCHANGED <<ret, child>>
    /\ pc' = "close"
    /\ UNCHANGED <<LArgs, iter, LBufs, fp, child_pid, exit_status, csv, clock,
                   heapFill, host, launcher, LHistory, pvars, svars>>

\* the child's exit status handed on as the logger's
FinalStatusOfChild == IF use_run /\ run_cmd = "./absent" THEN 1 ELSE 0

\* line 426: return 0
FinalStatus == 0

\* lines 422-426: fclose, free, return
Finish ==
    /\ pc = "close"
    /\ fp' = FALSE
    /\ Exit(FinalStatus, "end")
    /\ UNCHANGED <<LArgs, iter, LBufs, child_pid, ret, LEnv, runs, csvAtStart,
                   rowsRun, rowsAfterExit, lastMem, pvars, svars>>

\* the logger is started again on the same output path
NextRun ==
    /\ pc = "done"
    /\ runs < MaxRuns
    /\ pc' = "args"
    /\ numa_count' = 0
    /\ interval_sec' = Ivl(0, 1)
    /\ use_duration' = FALSE
    /\ duration_sec' = 0
    /\ use_run' = FALSE
    /\ run_cmd' = ""
    /\ iterations' = 0
    /\ iter' = 0
    /\ nm' = <<>> /\ nv' = <<>> /\ sv' = <<>>
    /\ fp' = FALSE
    /\ child_pid' = -1
    /\ ret' = 0
    /\ exit_status' = -1
    /\ child' = "none"
    /\ runs' = runs + 1
    /\ csvAtStart' = csv
    /\ rowsRun' = 0
    /\ rowsAfterExit' = 0
    /\ lastMem' = <<>>
    /\ exitSite' = ""
    /\ UNCHANGED <<csv, clock, heapFill, host, launcher, pvars, svars>>

(***************************************************************************)
(* change_policy                                                           *)
(***************************************************************************)
WordBits == 64
WorkloadPid == 777
SyscallNr == 470

\* the word count without the round-up
MaskWordsFloor(n) == n \div WordBits

\* (nodecount + sizeof(unsigned long) * 8 - 1) / (sizeof(unsigned long) * 8),
\* lines 20-23, for nodecount >= 0
MaskWords(n) == (n + WordBits - 1) \div WordBits

\* nmask[i / wordbits] and the bit i % wordbits, line 32
WordOf(i) == i \div WordBits
BitOf(i) == i % WordBits

\* a failed request reported in the exit status
StatusFromRequest(r) == IF r # 0 THEN 1 ELSE 0

\* the status main returns after the request, lines 35-44
StatusAfterRequest(r) == 0

PExit(code) == ppc' = "done" /\ p_exit' = code

\* lines 10-17
PArgs ==
    /\ ppc = "args"
    /\ \E argc \in 1 .. 5, n \in -1 .. MaxNodeCount :
          /\ p_argc' = argc
          /\ IF argc < 4
             THEN PExit(1) /\ UNCHANGED <<p_pid, p_mode, nodecount>>
             ELSE /\ ppc' = "calloc"
                  /\ p_pid' = WorkloadPid
                  /\ p_mode' \in {0, 2}
                  /\ nodecount' = n
                  /\ UNCHANGED p_exit
    /\ UNCHANGED <<nwords, nmask, p_i, requests, sysret, oob, freed, lvars, svars>>

\* lines 20-28: calloc; a negative nodecount converts to a word count no
\* address space holds, so that calloc returns NULL
PCalloc ==
    /\ ppc = "calloc"
    /\ \/ /\ nodecount >= 0
          /\ nwords' = MaskWords(nodecount)
          /\ nmask' = [w \in 0 .. (MaskWords(nodecount) - 1) |-> {}]
          /\ p_i' = 0
          /\ ppc' = "setbits"
          /\ UNCHANGED p_exit
       \/ /\ PExit(1)
          /\ UNCHANGED <<nwords, nmask, p_i>>
    /\ UNCHANGED <<p_argc, p_pid, p_mode, nodecount, requests, sysret, oob, freed, lvars, svars>>

\* lines 31-33: one pass of the bit loop, or its end
PSetBit ==
    /\ ppc = "setbits"
    /\ IF p_i < nodecount
       THEN /\ IF WordOf(p_i) \in DOMAIN nmask
               THEN /\ nmask' = [nmask EXCEPT ![WordOf(p_i)] = @ \cup {BitOf(p_i)}]
                    /\ UNCHANGED oob
               ELSE /\ oob' = TRUE
                    /\ UNCHANGED nmask
            /\ p_i' = p_i + 1
            /\ UNCHANGED ppc
       ELSE /\ ppc' = "syscall"
            /\ UNCHANGED <<nmask, oob, p_i>>
    /\ UNCHANGED <<p_argc, p_pid, p_mode, nodecount, nwords, requests, sysret, p_exit, freed,
                   lvars, svars>>

\* lines 35-41: syscall(__NR_my_new_syscall, pid, mode, nmask, nodecount)
PSyscall ==
    /\ ppc = "syscall"
    /\ requests' = Append(requests, [nr |-> SyscallNr, pid |-> p_pid,
                                     mode |-> p_mode, mask |-> nmask,
                                     nodecount |-> nodecount])
    /\ sysret' \in {0, -1}
    /\ ppc' = "free"
    /\ UNCHANGED <<p_argc, p_pid, p_mode, nodecount, nwords, nmask, p_i, p_exit, oob, freed,
                   lvars, svars>>

\* lines 43-44
PFree ==
    /\ ppc = "free"
    /\ freed' = TRUE
    /\ PExit(StatusAfterRequest(sysret))
    /\ UNCHANGED <<p_argc, p_pid, p_mode, nodecount, nwords, nmask, p_i, requests, sysret, oob,
                   lvars, svars>>

(***************************************************************************)
(* inference_script.sh                                                     *)
(***************************************************************************)
Modes == {0, 1, 2}

\* bash collects the status of every ended child whenever it waits for a
\* foreground command; until then the ended workload is a zombie, which
\* kill -0 still finds
Reaped(w) == IF w = "zombie" THEN "gone" ELSE w

\* the loop condition of line 11: kill -0 "$DUMMY_PID"
Alive(w) == w \in {"alive", "zombie"}

\* mode and node count in each other's place
PolicyArgsSwapped == <<DUMMY_PID, NUMA_COUNT, mode>>

\* the arguments of line 13
PolicyArgs == <<DUMMY_PID, mode, NUMA_COUNT>>

\* lines 3-9
SLaunch ==
    /\ spc = "launch"
    /\ NUMA_COUNT' \in 1 .. MaxNodes
    /\ DUMMY_PID' = WorkloadPid
    /\ workload' = "alive"
    /\ spc' = "probe"
    /\ UNCHANGED <<mode, calls, probes, decisions, sleeps, callsAfterTerm, lvars,
                   pvars>>

\* line 11, and line 17 when the probe fails
SProbe ==
    /\ spc = "probe"
    /\ probes < MaxLoops
    /\ probes' = probes + 1
    /\ spc' = IF Alive(workload) THEN "decide" ELSE "done"
    /\ UNCHANGED <<NUMA_COUNT, DUMMY_PID, workload, mode, calls, decisions, sleeps,
                   callsAfterTerm, lvars, pvars>>

\* line 12: mode=$(./dummy_model.sh)
SDecide ==
    /\ spc = "decide"
    /\ \E m \in Modes : mode' = m /\ decisions' = Append(decisions, m)
    /\ workload' = Reaped(workload)
    /\ spc' = "apply"
    /\ UNCHANGED <<NUMA_COUNT, DUMMY_PID, calls, probes, sleeps, callsAfterTerm,
                   lvars, pvars>>

\* line 13: ./change_policy "$DUMMY_PID" "$mode" "$NUMA_COUNT"
SApply ==
    /\ spc = "apply"
    /\ calls' = Append(calls, PolicyArgs)
    /\ callsAfterTerm' = IF workload # "alive" THEN callsAfterTerm + 1
                         ELSE callsAfterTerm
    /\ workload' = Reaped(workload)
    /\ spc' = "sleep"
    /\ UNCHANGED <<NUMA_COUNT, DUMMY_PID, mode, probes, decisions, sleeps, lvars,
                   pvars>>

\* line 14: sleep 0.5
SSleep ==
    /\ spc = "sleep"
    /\ sleeps' = sleeps + 1
    /\ workload' = Reaped(workload)
    /\ spc' = "probe"
    /\ UNCHANGED <<NUMA_COUNT, DUMMY_PID, mode, calls, probes, decisions,
                   callsAfterTerm, lvars, pvars>>

\* dummy_executable_benchmark.sh ends
WorkloadExit ==
    /\ workload = "alive"
    /\ workload' = "zombie"
    /\ UNCHANGED <<NUMA_COUNT, DUMMY_PID, spc, mode, calls, probes, decisions,
                   sleeps, callsAfterTerm, lvars, pvars>>

(***************************************************************************)
(* Initial states and specifications                                       *)
(***************************************************************************)
LStart ==
    /\ pc = "args"
    /\ numa_count = 0
    /\ interval_sec = Ivl(0, 1)
    /\ use_duration = FALSE
    /\ duration_sec = 0
    /\ use_run = FALSE
    /\ run_cmd = ""
    /\ iterations = 0
    /\ iter = 0
    /\ nm = <<>> /\ nv = <<>> /\ sv = <<>>
    /\ fp = FALSE
    /\ child_pid = -1
    /\ ret = 0
    /\ exit_status = -1
    /\ csv = NoCsv
    /\ child = "none"
    /\ clock = 0
    /\ runs = 1
    /\ csvAtStart = NoCsv
    /\ rowsRun = 0
    /\ rowsAfterExit = 0
    /\ lastMem = <<>>
    /\ exitSite = ""

PStart ==
    /\ ppc = "args"
    /\ p_argc = 0
    /\ p_pid = 0
    /\ p_mode = 0
    /\ nodecount = 0
    /\ nwords = -1
    /\ nmask = <<>>
    /\ p_i = 0
    /\ requests = <<>>
    /\ sysret = 0
    /\ p_exit = -1
    /\ oob = FALSE
    /\ freed = FALSE

SStart ==
    /\ NUMA_COUNT = 0
    /\ DUMMY_PID = 0
    /\ spc = "launch"
    /\ workload = "notstarted"
    /\ mode = 0
    /\ calls = <<>>
    /\ probes = 0
    /\ decisions = <<>>
    /\ sleeps = 0
    /\ callsAfterTerm = 0

\* one invocation of the logger by script.sh, on a host whose sources vary,
\* with any heap contents
Init ==
    /\ LStart /\ PStart /\ SStart
    /\ launcher = "script.sh"
    /\ host \in {"memvar", "vmvar", "steady"}
    /\ heapFill \in Indeterminate

Next ==
    \/ ParseArgs \/ Alloc \/ write_csv_header \/ OpenAppend \/ Fork
    \/ ChildExec \/ ChildExit
    \/ LoopTest \/ Sample \/ WriteRow \/ Sleep \/ Check \/ FinalWait \/ Finish

Spec == Init /\ [][Next]_vars

\* successive invocations of the logger on one output path, the heap freshly
\* mapped (zero-filled)
InitRuns ==
    /\ LStart /\ PStart /\ SStart
    /\ launcher = "cli"
    /\ host \in {"steady", "bare"}
    /\ heapFill = Zero

NextRuns == Next \/ NextRun

SpecRuns == InitRuns /\ [][NextRuns]_vars

\* one invocation of change_policy
InitPolicy ==
    /\ LStart /\ PStart /\ SStart
    /\ launcher = "cli"
    /\ host = "steady"
    /\ heapFill = Zero

NextPolicy == PArgs \/ PCalloc \/ PSetBit \/ PSyscall \/ PFree

SpecPolicy == InitPolicy /\ [][NextPolicy]_vars

\* one run of inference_script.sh
InitScript ==
    /\ LStart /\ PStart /\ SStart
    /\ launcher = "cli"
    /\ host = "steady"
    /\ heapFill = Zero

NextScript == SLaunch \/ SProbe \/ SDecide \/ SApply \/ SSleep \/ WorkloadExit

SpecScript == InitScript /\ [][NextScript]_vars

(***************************************************************************)
(* Properties                                                              *)
(***************************************************************************)
LastRow == csv.lines[Len(csv.lines)].fields
PrevRow == csv.lines[Len(csv.lines) - 1].fields
\* the value a row prints in column col
ValueAt(fields, col) == (CHOOSE k \in 1 .. Len(fields) : fields[k].col = col)
ValOf(fields, col) == fields[ValueAt(fields, col)].val
\* the rows the current invocation appended
OwnRows == {k \in (Len(csvAtStart.lines) + 1) .. Len(csv.lines) :
               csv.lines[k].kind = "row"}
ChildLive == child \in {"forked", "running"}

\* C1: in run mode, wherever the child exits, at most one more row is written
\* after its exit and the loop then ends; the loop never ends while the child
\* still runs; at the end the child is reaped and the logger's status is 0.
C1_RunModeFollowsChild ==
    (use_run /\ child_pid > 0) =>
        /\ rowsAfterExit <= 1
        /\ (pc \in {"loop", "sample"} => rowsAfterExit = 0)
        /\ (pc \in {"reap", "close", "done"} => ~ChildLive)
        /\ (pc = "done" => child = "reaped" /\ exit_status = 0)

C1_Witness ==
    /\ pc = "done" /\ use_run /\ child_pid > 0
    /\ child = "reaped" /\ exit_status = 0
    /\ rowsAfterExit = 1 /\ rowsRun >= 2

\* C2: when the meminfo source of node i is missing in an interval, the row of
\* that interval repeats the previous row's mem_total and mem_used for node i,
\* and carries zero for both in the first interval.
C2_MissingKeepsPreviousOrZero ==
    pc = "sleep" =>
        \A i \in Nodes(numa_count) :
            ~lastMem[i].present =>
                \A f \in {"mem_total", "mem_used"} :
                    ValOf(LastRow, <<"node", i, f>>) =
                        (IF rowsRun = 1 THEN Zero
                         ELSE ValOf(PrevRow, <<"node", i, f>>))

\* C3: over successive runs on one path that starts absent, the file holds
\* exactly one header, as its first line; no step removes or rewrites a line
\* already in the file, and a run that finds the file leaves its header alone.
IsPrefix(a, b) == Len(a) <= Len(b) /\ \A k \in 1 .. Len(a) : a[k] = b[k]
OneHeaderFirst(f) ==
    /\ f.exists => Len(f.lines) >= 1
    /\ \A k \in 1 .. Len(f.lines) : (f.lines[k].kind = "header") = (k = 1)
C3_OneHeaderAppendOnly ==
    [][/\ OneHeaderFirst(csv')
       /\ IsPrefix(csv.lines, csv'.lines)
       /\ (csv.exists => csv'.exists)]_vars

C3_Witness ==
    /\ runs >= 2 /\ rowsRun >= 1
    /\ csvAtStart.exists /\ Len(csvAtStart.lines) >= 2
    /\ Len(csv.lines[1].cols) # Len(HeaderCols(numa_count))

\* C4: every row a run with numa_count = N appends has 1 + 2N + 7N + 8
\* fields, in the column order of the header written for N, whatever the
\* sources of the interval held.
C4_RowsMatchHeader ==
    \A k \in OwnRows :
        LET fields == csv.lines[k].fields
            cols == HeaderLine(numa_count).cols
        IN /\ Len(fields) = 1 + 2 * numa_count + 7 * numa_count + 8
           /\ Len(fields) = Len(cols)
           /\ \A j \in 1 .. Len(fields) : fields[j].col = cols[j]

C4_Witness ==
    /\ numa_count = 2 /\ rowsRun >= 1 /\ pc = "sleep"
    /\ \E i \in Nodes(numa_count) : ~lastMem[i].present
    /\ host = "memvar"
    /\ Len(LastRow) = Len(HeaderCols(numa_count))

\* C5: a duration-mode run with positive D and I ends with status 0 having
\* appended exactly floor(D / I) rows, and never spawns a child.
C5_DurationRowsAreFloor ==
    (pc = "done" /\ use_duration) =>
        /\ exit_status = 0 => /\ QuotFits(duration_sec, interval_sec)
                              /\ rowsRun = Quot(duration_sec, interval_sec)
        /\ child = "none" /\ child_pid = -1

\* C6: the request (code 470) is issued exactly once on the runs that pass the
\* argument-count and allocation checks and on no other run; with fewer than
\* three arguments the status is 1 and nothing was requested; once the request
\* is issued the status is 0, whatever the request returned.
C6_OneRequestThenStatusZero ==
    /\ Len(requests) <= 1
    /\ \A k \in 1 .. Len(requests) : requests[k].nr = 470
    /\ (ppc \in {"args", "calloc", "setbits", "syscall"} => requests = <<>>)
    /\ (ppc \in {"free", "done"} =>
            (Len(requests) = 1) = (p_argc >= 4 /\ nwords >= 0))
    /\ (ppc = "done" /\ p_argc < 4 => p_exit = 1 /\ requests = <<>>)
    /\ (ppc = "done" /\ Len(requests) = 1 => p_exit = 0)

C6_Witness ==
    /\ ppc = "done" /\ Len(requests) = 1 /\ sysret = -1 /\ p_exit = 0

\* C7: for nodecount N >= 1 the mask has ceil(N / word_bits) words, no write
\* of the loop leaves them, no bit >= N is ever set, and once the loop is over
\* every bit 0 .. N-1 is set.
C7_MaskHasExactlyLowBits ==
    (nodecount >= 1 /\ nwords >= 0) =>
        /\ nwords * 64 >= nodecount /\ (nwords - 1) * 64 < nodecount
        /\ DOMAIN nmask = 0 .. (nwords - 1)
        /\ ~oob
        /\ \A w \in DOMAIN nmask : \A b \in nmask[w] :
               b \in 0 .. 63 /\ w * 64 + b < nodecount
        /\ (ppc \in {"syscall", "free", "done"} =>
               \A k \in 0 .. (nodecount - 1) : (k % 64) \in nmask[k \div 64])

C7_Witness ==
    /\ ppc = "done" /\ nodecount = 129 /\ nwords = 3 /\ p_exit = 0
    /\ 0 \in nmask[2] /\ 1 \notin nmask[2]

\* C8: each pass of the script's loop is probe, decision, policy call with
\* (workload pid, the mode just decided, node count), sleep, in that order;
\* one policy call per pass; at most one policy call after the workload has
\* ended; the loop is left only when the workload is no longer alive.
C8_LoopOrderAndStop ==
    LET k == Len(calls) IN
    /\ callsAfterTerm <= 1
    /\ (spc = "done" => workload # "alive")
    /\ \A j \in 1 .. k : calls[j] = <<777, decisions[j], NUMA_COUNT>>
    /\ (spc = "probe" => probes = k /\ Len(decisions) = k /\ sleeps = k)
    /\ (spc = "decide" => probes = k + 1 /\ Len(decisions) = k /\ sleeps = k)
    /\ (spc = "apply" => probes = k + 1 /\ Len(decisions) = k + 1 /\ sleeps = k)
    /\ (spc = "sleep" => probes = k /\ Len(decisions) = k /\ sleeps = k - 1)
    /\ (spc = "done" => probes = k + 1 /\ Len(decisions) = k /\ sleeps = k)

C8_Witness ==
    /\ spc = "done" /\ callsAfterTerm = 1 /\ Len(calls) = 2
    /\ calls[1][2] # calls[2][2]

\* C9: a run that ends with status 1 has spawned no child and appended no
\* row; when it ended at an argument check or at the allocation check, the log
\* file is as the run found it.
C9_FailedRunLeavesNoTrace ==
    exit_status = 1 =>
        /\ child = "none" /\ child_pid = -1
        /\ rowsRun = 0 /\ OwnRows = {}
        /\ (exitSite \in {"args", "alloc"} => csv = csvAtStart)

C9_Witness ==
    /\ exit_status = 1 /\ exitSite = "alloc"
    /\ runs >= 2 /\ csv.exists /\ Len(csv.lines) >= 2

\* the first MemFree line of node i that holds a number, as a set
FirstFree(file, i) ==
    LET hits == {k \in 1 .. Len(file.lines) :
                    /\ file.lines[k].key = "MemFree"
                    /\ file.lines[k].node = i
                    /\ file.lines[k].num}
    IN IF ~file.present \/ hits = {} THEN {}
       ELSE {file.lines[CHOOSE k \in hits : \A j \in hits : k <= j].val}

\* C10: in every row, for every node whose meminfo source held a MemFree
\* value in that interval, mem_used = mem_total - MemFree (unsigned 32 bit),
\* in whatever order the two lines came.
C10_UsedIsTotalMinusFree ==
    pc = "sleep" =>
        \A i \in Nodes(numa_count) : \A free \in FirstFree(lastMem[i], i) :
            ValOf(LastRow, <<"node", i, "mem_used">>) =
                USub(ValOf(LastRow, <<"node", i, "mem_total">>), free)

====
